---- MODULE Spec2Model ----
(***************************************************************************)
(* manifest-check: a registry audit tool.  main() resolves a list of       *)
(* repository names, starts a pool of goroutines that range over an        *)
(* unbuffered channel of names, and runs checkRepo on each name;           *)
(* checkRepo lists the tags of the repository, fetches every manifest and  *)
(* passes it to checkManifest, which prints findings about the image       *)
(* history.                                                                *)
(*                                                                         *)
(* Specifications:                                                         *)
(*   Spec      the scan coordinator of main.go (producer, pool, checkRepo) *)
(*   SpecFair  the same scan under fair scheduling                         *)
(*   SpecHang  the scan with a collaborator call that never returns        *)
(*   SpecMain  main() of main.go from its first statement                  *)
(*   SpecSeq   main() of the sequential program (src/unnamed/part_000)     *)
(*   SpecCM    checkManifest applied to every manifest of a bounded family *)
(***************************************************************************)
EXTENDS Integers, Sequences, FiniteSets, Bags, TLC

VARIABLES
    cm,        \* SpecCM: one checkManifest call: arguments, output, result
    repos,     \* main: the resolved list of repository names
    mainPC,    \* main: position in main(), "panic" after a panic
    spawned,   \* main: value of i in the loop that starts the goroutines
    next,      \* main: position of the next name the producer sends
    closed,    \* repoChan has been closed
    wg,        \* counter of the sync.WaitGroup
    wpc,       \* per goroutine: position in the closure / in checkRepo
    wname,     \* per goroutine: repoName of the current iteration
    wtags,     \* per goroutine: tags returned by manifests.Tags()
    wti,       \* per goroutine: position in the range over tags
    wtrace,    \* per goroutine: calls made by the checkRepo in progress
    finished,  \* bag of the checkRepo calls that returned
    stdout,    \* bag of the lines printed by checkManifest
    stderr,    \* bag of the lines printed to os.Stderr
    env,       \* main: what the process is started with and finds outside
    fatal      \* message of the panic that ended the process, "" for none

vars == <<cm, repos, mainPC, spawned, next, closed, wg, wpc, wname, wtags,
          wti, wtrace, finished, stdout, stderr, env, fatal>>

scanVars == <<repos, mainPC, spawned, next, closed, wg, wpc, wname, wtags,
              wti, wtrace, finished, stdout, stderr, env, fatal>>

----------------------------------------------------------------------------
(* Bounds of the model *)

\* longest history and longest layer list of a manifest
MaxLen == 3

\* longest resolved repository list
MaxRepos == 3

\* number of goroutines of the pool in the model (main.go starts 30)
PoolWidth == 2

\* const maxRepos of the model (main.go has 500000): the size of the buffer
\* handed to registry.Repositories
maxRepos == 2

\* most lines of a repository-list file
MaxLines == 2

\* most '+' characters at the start of a line of the file
MaxPlus == 2

----------------------------------------------------------------------------
(* schema1 manifests and the V1Compatibility blobs of their history *)

\* image IDs that occur in the blobs
IDs == {"a", "b"}

\* a JSON value of the blob that is not a string (a number)
NUM == "#num"

\* The V1Compatibility strings, by what json.Unmarshal makes of them:
\* wellformed is FALSE for text that is not valid JSON; id and parent are
\* the values of the "id" and "parent" members, "" standing for an absent
\* member or an empty string and NUM for a member that holds a number.
Blobs ==
    {[wellformed |-> FALSE, id |-> "a", parent |-> "b"]}
    \cup {[wellformed |-> TRUE, id |-> i, parent |-> p] :
              i \in IDs \cup {""}, p \in IDs \cup {""}}
    \cup {[wellformed |-> TRUE, id |-> NUM, parent |-> "a"],
          [wellformed |-> TRUE, id |-> "a", parent |-> NUM]}

\* the zero value of the local type image
ZeroImage == [ID |-> "", Parent |-> ""]

\* json.Unmarshal([]byte(entry.V1Compatibility), &im) with im the zero image.
\* Invalid JSON is rejected before anything is stored (SyntaxError).  A
\* member of the wrong JSON type is skipped, the other members are still
\* stored, and an UnmarshalTypeError is returned.
Unmarshal(blob) ==
    IF ~blob.wellformed
    THEN [err |-> "invalid character", im |-> ZeroImage]
    ELSE [err |-> IF blob.id = NUM \/ blob.parent = NUM
                  THEN "cannot unmarshal number into Go value of type string"
                  ELSE "nil",
          im  |-> [ID     |-> IF blob.id = NUM THEN "" ELSE blob.id,
                   Parent |-> IF blob.parent = NUM THEN "" ELSE blob.parent]]

\* sequences over S of length 0..n
SeqUpTo(S, n) == UNION {[1..k -> S] : k \in 0..n}

\* the manifests checkManifest is applied to
Manifests ==
    {[FSLayers |-> [k \in 1..l |-> "layer"], History |-> h] :
        l \in 0..MaxLen, h \in SeqUpTo(Blobs, MaxLen)}

----------------------------------------------------------------------------
(* checkManifest *)

\* a line printed by checkManifest: "<repo>: <msg>" or "<repo>: <msg>: <arg>"
\* / "(parent ID <arg>)".  pos is the history position (1-based) the line is
\* about, 0 for the lines about the counts; it is not part of the text.
Finding(repoName, msg, arg, pos) ==
    [repo |-> repoName, msg |-> msg, arg |-> arg, pos |-> pos]

NoLayers == "no layers present"
Mismatched == "mismatched layers and history"
UnmarshalError == "json unmarshal error"
ParentNotBelow == "parent not below in manifest"

\* CountFindings with "and" in place of "or" in the first check
CountFindingsAnd(repoName, nLayers, nHistory) ==
    (IF nLayers = 0 /\ nHistory = 0
     THEN <<Finding(repoName, NoLayers, "", 0)>> ELSE <<>>)
    \o
    (IF nLayers # nHistory
     THEN <<Finding(repoName, Mismatched, "", 0)>> ELSE <<>>)

\* the two checks of the counts
CountFindings(repoName, nLayers, nHistory) ==
    (IF nLayers = 0 \/ nHistory = 0
     THEN <<Finding(repoName, NoLayers, "", 0)>> ELSE <<>>)
    \o
    (IF nLayers # nHistory
     THEN <<Finding(repoName, Mismatched, "", 0)>> ELSE <<>>)

\* DecodeEntry that leaves an entry it cannot decode out of images
DecodeEntrySkip(repoName, acc, blob, k) ==
    LET r == Unmarshal(blob) IN
    IF r.err # "nil"
    THEN [images |-> acc.images,
          out    |-> Append(acc.out, Finding(repoName, UnmarshalError, r.err, k))]
    ELSE [images |-> Append(acc.images, r.im), out |-> acc.out]

\* one iteration of the loop over mnfst.History: acc is [images, out]
DecodeEntry(repoName, acc, blob, k) ==
    LET r == Unmarshal(blob) IN
    [images |-> Append(acc.images, r.im),
     out    |-> IF r.err # "nil"
                THEN Append(acc.out, Finding(repoName, UnmarshalError, r.err, k))
                ELSE acc.out]

RECURSIVE DecodeFrom(_, _, _, _)
DecodeFrom(repoName, history, k, acc) ==
    IF k > Len(history) THEN acc
    ELSE DecodeFrom(repoName, history, k + 1,
                    DecodeEntry(repoName, acc, history[k], k))

\* the loop over mnfst.History: the images and the lines it prints
DecodeHistory(repoName, history) ==
    DecodeFrom(repoName, history, 1, [images |-> <<>>, out |-> <<>>])

\* the inner loop over images[i:], at candidate j: the value of id when the
\* loop ends, by the break or by running off the end
RECURSIVE ScanCandidates(_, _, _)
ScanCandidates(images, parent, j) ==
    IF images[j].ID = parent THEN images[j].ID
    ELSE IF j = Len(images) THEN images[j].ID
    ELSE ScanCandidates(images, parent, j + 1)

\* ScanParent over images[i+1:], the entries after position i only
ScanParentAfter(images, i) ==
    IF i = Len(images) THEN ""
    ELSE ScanCandidates(images, images[i].Parent, i + 1)

\* ScanParent without the break: id ends as the ID of the last image
ScanParentNoBreak(images, i) == images[Len(images)].ID

\* ScanParent over all of images rather than images[i:]
ScanParentAll(images, i) == ScanCandidates(images, images[i].Parent, 1)

\* id after the inner loop for the image at position i
ScanParent(images, i) == ScanCandidates(images, images[i].Parent, i)

\* the body of the loop over images at position i
ParentCheck(repoName, images, i) ==
    IF images[i].Parent # "" /\ images[i].Parent # ScanParent(images, i)
    THEN <<Finding(repoName, ParentNotBelow, images[i].Parent, i)>>
    ELSE <<>>

RECURSIVE ParentFrom(_, _, _)
ParentFrom(repoName, images, i) ==
    IF i > Len(images) THEN <<>>
    ELSE ParentCheck(repoName, images, i) \o ParentFrom(repoName, images, i + 1)

\* the loop over images
ParentFindings(repoName, images) == ParentFrom(repoName, images, 1)

\* CheckManifest with the parent loop ahead of the decode loop
CheckManifestParentFirst(repoName, mnfst) ==
    LET d == DecodeHistory(repoName, mnfst.History) IN
    [out    |-> CountFindings(repoName, Len(mnfst.FSLayers), Len(mnfst.History))
                \o ParentFindings(repoName, d.images) \o d.out,
     images |-> d.images,
     err    |-> "nil"]

\* checkManifest(repoName, mnfst): the lines printed, the local images slice
\* and the error returned
CheckManifest(repoName, mnfst) ==
    LET d == DecodeHistory(repoName, mnfst.History) IN
    [out    |-> CountFindings(repoName, Len(mnfst.FSLayers), Len(mnfst.History))
                \o d.out \o ParentFindings(repoName, d.images),
     images |-> d.images,
     err    |-> "nil"]

----------------------------------------------------------------------------
(* SpecCM: checkManifest on every manifest of the family *)

CMRepo == "alpha"

NoManifest == [FSLayers |-> <<>>, History |-> <<>>]

CMIdle ==
    [pc |-> "idle", repoName |-> "", mnfst |-> NoManifest,
     out |-> <<>>, images |-> <<>>, err |-> "nil"]

\* no repository-list file
NoFile == [openErr |-> FALSE, lines |-> <<>>]

\* no enumeration
NoEnum == [n |-> 0, err |-> "EOF"]

\* a process whose setup went through
NoEnv ==
    [configPath |-> "config.yml", config |-> "ok", reposPath |-> "",
     file |-> NoFile, enum |-> NoEnum]

ScanIdle ==
    /\ repos = <<>>
    /\ mainPC = "done"
    /\ spawned = 0
    /\ next = 1
    /\ closed = FALSE
    /\ wg = 0
    /\ wpc = <<>>
    /\ wname = <<>>
    /\ wtags = <<>>
    /\ wti = <<>>
    /\ wtrace = <<>>
    /\ finished = EmptyBag
    /\ stdout = EmptyBag
    /\ stderr = EmptyBag
    /\ env = NoEnv
    /\ fatal = ""

InitCM ==
    /\ \E m \in Manifests :
          cm = [pc |-> "called", repoName |-> CMRepo, mnfst |-> m,
                out |-> <<>>, images |-> <<>>, err |-> "nil"]
    /\ ScanIdle

\* the call runs to its return
CMReturn ==
    /\ cm.pc = "called"
    /\ LET r == CheckManifest(cm.repoName, cm.mnfst) IN
       cm' = [cm EXCEPT !.pc = "returned", !.out = r.out,
                        !.images = r.images, !.err = r.err]
    /\ UNCHANGED scanVars

NextCM == CMReturn

SpecCM == InitCM /\ [][NextCM]_vars

----------------------------------------------------------------------------
(* The registry (distribution.Namespace) the scan runs against: four       *)
(* repositories, one for each way a checkRepo call goes.                   *)

RepoNames == {"alpha", "noopen", "notags", "badfetch"}

Layers(n) == [k \in 1..n |-> "layer"]

Obj(id, parent) == [wellformed |-> TRUE, id |-> id, parent |-> parent]

\* two layers, history a -> b -> root: nothing to report
ChainManifest ==
    [FSLayers |-> Layers(2), History |-> <<Obj("a", "b"), Obj("b", "")>>]

\* one layer, two history entries, the first not valid JSON, the second
\* with a parent that occurs nowhere
BrokenManifest ==
    [FSLayers |-> Layers(1),
     History  |-> <<[wellformed |-> FALSE, id |-> "a", parent |-> "b"],
                    Obj("a", "b")>>]

\* registry.Repository(ctx, repoName): the error, "nil" for none
RegistryRepository(repoName) ==
    IF repoName \in RepoNames \ {"noopen"}
    THEN "nil"
    ELSE "repository name invalid"

\* repo.Manifests(ctx): the storage registry builds the manifest service
\* without reading anything, so no repository of this registry fails here
RepoManifests(repoName) ==
    IF repoName \in RepoNames THEN "nil" ELSE "manifest service unavailable"

\* manifests.Tags()
ManifestsTags(repoName) ==
    CASE repoName = "notags"   -> [err |-> "tags unreadable", tags |-> <<>>]
      [] repoName = "alpha"    -> [err |-> "nil", tags |-> <<"v1", "v2">>]
      [] repoName = "badfetch" -> [err |-> "nil", tags |-> <<"v1", "v2", "v3">>]
      [] OTHER                 -> [err |-> "nil", tags |-> <<>>]

\* manifests.GetByTag(tag)
ManifestsGetByTag(repoName, tag) ==
    CASE repoName = "badfetch" /\ tag = "v2" ->
             [err |-> "manifest unknown", mnfst |-> NoManifest]
      [] tag = "v1" -> [err |-> "nil", mnfst |-> ChainManifest]
      [] OTHER      -> [err |-> "nil", mnfst |-> BrokenManifest]

----------------------------------------------------------------------------
(* Spec: main() from the start of the pool, and checkRepo *)

Workers == 1..PoolWidth

\* a call made by checkRepo, as the registry sees it
Call(op, tag, err) == [op |-> op, tag |-> tag, err |-> err]

\* a line on os.Stderr; repo names the checkRepo call that caused it
ErrLine(repoName, text) == [repo |-> repoName, text |-> text]

ErrRepository == "unexpected error getting repository"
ErrManifests == "unexpected error getting manifests"
ErrTags == "unexpected error getting tags"
ErrGetByTag == "unexpected error getting manifest by tag"
CheckingRepo == "checking repo"

Range(s) == {s[i] : i \in DOMAIN s}

BagOfSeq(s) == [e \in Range(s) |-> Cardinality({i \in DOMAIN s : s[i] = e})]

\* a checkRepo call that returned
Returned(repoName, trace, err) == [repo |-> repoName, trace |-> trace, err |-> err]

\* no goroutine started, nothing sent, nothing printed
PoolIdle ==
    /\ spawned = 0
    /\ next = 1
    /\ closed = FALSE
    /\ wg = 0
    /\ wpc = [w \in Workers |-> "idle"]
    /\ wname = [w \in Workers |-> ""]
    /\ wtags = [w \in Workers |-> <<>>]
    /\ wti = [w \in Workers |-> 1]
    /\ wtrace = [w \in Workers |-> <<>>]
    /\ finished = EmptyBag
    /\ stdout = EmptyBag
    /\ stderr = EmptyBag

\* main() at "var wg sync.WaitGroup", the list resolved from names
ScanInit(names) ==
    /\ cm = CMIdle
    /\ repos \in SeqUpTo(names, MaxRepos)
    /\ mainPC = "spawn"
    /\ env = NoEnv
    /\ fatal = ""
    /\ PoolIdle

Init == ScanInit(RepoNames)

\* for i := 0; i < 30; i++ { wg.Add(1); go func() {...}() }
Spawn ==
    /\ mainPC = "spawn"
    /\ spawned < PoolWidth
    /\ wg' = wg + 1
    /\ wpc' = [wpc EXCEPT ![spawned + 1] = "recv"]
    /\ spawned' = spawned + 1
    /\ mainPC' = IF spawned + 1 = PoolWidth THEN "send" ELSE "spawn"
    /\ UNCHANGED <<env, fatal, cm, repos, next, closed, wname, wtags, wti, wtrace,
                   finished, stdout, stderr>>

\* Send that passes over the name after the one it sends
SendSkip(w) ==
    /\ mainPC = "send"
    /\ next <= Len(repos)
    /\ ~closed
    /\ wpc[w] = "recv"
    /\ wname' = [wname EXCEPT ![w] = repos[next]]
    /\ wpc' = [wpc EXCEPT ![w] = "open"]
    /\ wtrace' = [wtrace EXCEPT ![w] = <<>>]
    /\ wtags' = [wtags EXCEPT ![w] = <<>>]
    /\ wti' = [wti EXCEPT ![w] = 1]
    /\ next' = next + 2
    /\ UNCHANGED <<env, fatal, cm, repos, mainPC, spawned, closed, wg, finished, stdout,
                   stderr>>

\* Send that takes the names from the end of the list
SendLastFirst(w) ==
    /\ mainPC = "send"
    /\ next <= Len(repos)
    /\ ~closed
    /\ wpc[w] = "recv"
    /\ wname' = [wname EXCEPT ![w] = repos[Len(repos) + 1 - next]]
    /\ wpc' = [wpc EXCEPT ![w] = "open"]
    /\ wtrace' = [wtrace EXCEPT ![w] = <<>>]
    /\ wtags' = [wtags EXCEPT ![w] = <<>>]
    /\ wti' = [wti EXCEPT ![w] = 1]
    /\ next' = next + 1
    /\ UNCHANGED <<env, fatal, cm, repos, mainPC, spawned, closed, wg, finished, stdout,
                   stderr>>

\* Send that hands the names out in turn: the k-th name waits for goroutine
\* ((k - 1) mod PoolWidth) + 1
SendInTurn(w) ==
    /\ mainPC = "send"
    /\ next <= Len(repos)
    /\ ~closed
    /\ wpc[w] = "recv"
    /\ w = ((next - 1) % PoolWidth) + 1
    /\ wname' = [wname EXCEPT ![w] = repos[next]]
    /\ wpc' = [wpc EXCEPT ![w] = "open"]
    /\ wtrace' = [wtrace EXCEPT ![w] = <<>>]
    /\ wtags' = [wtags EXCEPT ![w] = <<>>]
    /\ wti' = [wti EXCEPT ![w] = 1]
    /\ next' = next + 1
    /\ UNCHANGED <<env, fatal, cm, repos, mainPC, spawned, closed, wg, finished, stdout,
                   stderr>>

\* repoChan <- repoName meets the receive of goroutine w (the channel is
\* unbuffered); w calls checkRepo(registry, repoName)
Send(w) ==
    /\ mainPC = "send"
    /\ next <= Len(repos)
    /\ ~closed
    /\ wpc[w] = "recv"
    /\ wname' = [wname EXCEPT ![w] = repos[next]]
    /\ wpc' = [wpc EXCEPT ![w] = "open"]
    /\ wtrace' = [wtrace EXCEPT ![w] = <<>>]
    /\ wtags' = [wtags EXCEPT ![w] = <<>>]
    /\ wti' = [wti EXCEPT ![w] = 1]
    /\ next' = next + 1
    /\ UNCHANGED <<env, fatal, cm, repos, mainPC, spawned, closed, wg, finished, stdout,
                   stderr>>

\* Close without the close: main goes on to wg.Wait()
CloseForgotten ==
    /\ mainPC = "send"
    /\ next > Len(repos)
    /\ mainPC' = "wait"
    /\ UNCHANGED <<env, fatal, cm, repos, spawned, next, closed, wg, wpc, wname, wtags,
                   wti, wtrace, finished, stdout, stderr>>

\* close(repoChan), after the range over repos
Close ==
    /\ mainPC = "send"
    /\ next > Len(repos)
    /\ closed' = TRUE
    /\ mainPC' = "wait"
    /\ UNCHANGED <<env, fatal, cm, repos, spawned, next, wg, wpc, wname, wtags, wti, wtrace, finished, stdout, stderr>>

\* Wait that returns whatever the counter is
WaitNoBarrier ==
    /\ mainPC = "wait"
    /\ mainPC' = "done"
    /\ UNCHANGED <<env, fatal, cm, repos, spawned, next, closed, wg, wpc, wname, wtags,
                   wti, wtrace, finished, stdout, stderr>>

\* wg.Wait() returns
Wait ==
    /\ mainPC = "wait"
    /\ wg = 0
    /\ mainPC' = "done"
    /\ UNCHANGED <<env, fatal, cm, repos, spawned, next, closed, wg, wpc, wname, wtags,
                   wti, wtrace, finished, stdout, stderr>>

\* ReturnFrom that drops the error instead of printing it
ReturnFromSilent(w, trace, err, se) ==
    /\ wpc' = [wpc EXCEPT ![w] = "recv"]
    /\ wname' = [wname EXCEPT ![w] = ""]
    /\ wtags' = [wtags EXCEPT ![w] = <<>>]
    /\ wti' = [wti EXCEPT ![w] = 1]
    /\ wtrace' = [wtrace EXCEPT ![w] = <<>>]
    /\ finished' = finished (+) SetToBag({Returned(wname[w], trace, err)})
    /\ stderr' = se

\* checkRepo returns err with trace its calls and se the lines on os.Stderr
\* so far; the closure prints a non-nil err and goes back to the receive:
\*   if err := checkRepo(registry, repoName); err != nil {
\*       fmt.Fprintln(os.Stderr, err) }
\* The locals of the iteration (repoName, tags, the loop position) are gone.
ReturnFrom(w, trace, err, se) ==
    /\ wpc' = [wpc EXCEPT ![w] = "recv"]
    /\ wname' = [wname EXCEPT ![w] = ""]
    /\ wtags' = [wtags EXCEPT ![w] = <<>>]
    /\ wti' = [wti EXCEPT ![w] = 1]
    /\ wtrace' = [wtrace EXCEPT ![w] = <<>>]
    /\ finished' = finished (+) SetToBag({Returned(wname[w], trace, err)})
    /\ stderr' = IF err # "nil"
                 THEN se (+) SetToBag({ErrLine(wname[w], err)})
                 ELSE se

\* checkRepo goes on to the statement at pc
Continue(w, pc, trace) ==
    /\ wpc' = [wpc EXCEPT ![w] = pc]
    /\ wtrace' = [wtrace EXCEPT ![w] = trace]
    /\ UNCHANGED <<wname, finished>>

\* repo, err := registry.Repository(ctx, repoName), then
\* manifests, err := repo.Manifests(ctx)
OpenRepository(w) ==
    /\ wpc[w] = "open"
    /\ LET err1 == RegistryRepository(wname[w])
           err2 == RepoManifests(wname[w])
           trace1 == Append(wtrace[w], Call("Repository", "", err1))
           trace2 == Append(trace1, Call("Manifests", "", err2)) IN
       IF err1 # "nil"
       THEN ReturnFrom(w, trace1, ErrRepository, stderr)
       ELSE IF err2 # "nil"
       THEN ReturnFrom(w, trace2, ErrManifests, stderr)
       ELSE /\ Continue(w, "tags", trace2)
            /\ UNCHANGED <<wtags, wti, stderr>>
    /\ UNCHANGED <<env, fatal, cm, repos, mainPC, spawned, next, closed, wg, stdout>>

\* tags, err := manifests.Tags(); on success the "checking repo" line, and
\* with no tag at all the range is over at once and checkRepo returns nil
ListTags(w) ==
    /\ wpc[w] = "tags"
    /\ LET r == ManifestsTags(wname[w])
           trace == Append(wtrace[w], Call("Tags", "", r.err))
           se == stderr (+) SetToBag({ErrLine(wname[w], CheckingRepo)}) IN
       IF r.err # "nil"
       THEN ReturnFrom(w, trace, ErrTags, stderr)
       ELSE IF Len(r.tags) = 0
       THEN ReturnFrom(w, trace, "nil", se)
       ELSE /\ Continue(w, "loop", trace)
            /\ wtags' = [wtags EXCEPT ![w] = r.tags]
            /\ wti' = [wti EXCEPT ![w] = 1]
            /\ stderr' = se
    /\ UNCHANGED <<env, fatal, cm, repos, mainPC, spawned, next, closed, wg, stdout>>

\* CheckTag that goes on to the next tag when GetByTag fails
CheckTagContinue(w) ==
    /\ wpc[w] = "loop"
    /\ wti[w] <= Len(wtags[w])
    /\ LET tag == wtags[w][wti[w]]
           r == ManifestsGetByTag(wname[w], tag)
           fetched == Append(wtrace[w], Call("GetByTag", tag, r.err))
           c == CheckManifest(wname[w], r.mnfst)
           trace == IF r.err # "nil" THEN fetched
                    ELSE Append(fetched, Call("checkManifest", tag, c.err)) IN
       /\ stdout' = IF r.err # "nil" THEN stdout ELSE stdout (+) BagOfSeq(c.out)
       /\ IF wti[w] = Len(wtags[w])
          THEN ReturnFrom(w, trace, "nil", stderr)
          ELSE /\ Continue(w, "loop", trace)
               /\ wti' = [wti EXCEPT ![w] = wti[w] + 1]
               /\ UNCHANGED <<wtags, stderr>>
    /\ UNCHANGED <<env, fatal, cm, repos, mainPC, spawned, next, closed, wg>>

\* one iteration of the range over tags: GetByTag, then checkManifest; after
\* the last tag checkRepo returns nil
CheckTag(w) ==
    /\ wpc[w] = "loop"
    /\ wti[w] <= Len(wtags[w])
    /\ LET tag == wtags[w][wti[w]]
           r == ManifestsGetByTag(wname[w], tag)
           fetched == Append(wtrace[w], Call("GetByTag", tag, r.err)) IN
       IF r.err # "nil"
       THEN /\ ReturnFrom(w, fetched, ErrGetByTag, stderr)
            /\ UNCHANGED stdout
       ELSE LET c == CheckManifest(wname[w], r.mnfst)
                trace == Append(fetched, Call("checkManifest", tag, c.err)) IN
            /\ stdout' = stdout (+) BagOfSeq(c.out)
            /\ IF c.err # "nil"
               THEN ReturnFrom(w, trace, c.err, stderr)
               ELSE IF wti[w] = Len(wtags[w])
               THEN ReturnFrom(w, trace, "nil", stderr)
               ELSE /\ Continue(w, "loop", trace)
                    /\ wti' = [wti EXCEPT ![w] = wti[w] + 1]
                    /\ UNCHANGED <<wtags, stderr>>
    /\ UNCHANGED <<env, fatal, cm, repos, mainPC, spawned, next, closed, wg>>

\* RecvClosed that takes an empty channel for a closed one
RecvClosedEarly(w) ==
    /\ wpc[w] = "recv"
    /\ wg' = wg - 1
    /\ wpc' = [wpc EXCEPT ![w] = "exited"]
    /\ UNCHANGED <<env, fatal, cm, repos, mainPC, spawned, next, closed, wname, wtags, wti,
                   wtrace, finished, stdout, stderr>>

\* the range over repoChan ends, the channel being closed and empty; then
\* wg.Done() and the goroutine is over
RecvClosed(w) ==
    /\ wpc[w] = "recv"
    /\ closed
    /\ wg' = wg - 1
    /\ wpc' = [wpc EXCEPT ![w] = "exited"]
    /\ UNCHANGED <<env, fatal, cm, repos, mainPC, spawned, next, closed, wname, wtags, wti,
                   wtrace, finished, stdout, stderr>>

MainStep == Spawn \/ Close \/ Wait

WorkerStep(w) ==
    \/ OpenRepository(w)
    \/ ListTags(w)
    \/ CheckTag(w)
    \/ RecvClosed(w)

Next ==
    \/ MainStep
    \/ \E w \in Workers : Send(w)
    \/ \E w \in Workers : WorkerStep(w)

Spec == Init /\ [][Next]_vars

\* Scheduling: the Go scheduler runs every goroutine that can run, so the
\* process does not stop while some goroutine has a step to take.  That is
\* all SpecFair asks for (it is implied by weak fairness of each goroutine).
\* the scan under fair scheduling, over the lists of a repository that is
\* scanned to its end and one that fails to open
FairRepoNames == {"alpha", "noopen"}

InitFair == ScanInit(FairRepoNames)

SpecFair == InitFair /\ [][Next]_vars /\ WF_vars(Next)

----------------------------------------------------------------------------
(* SpecHang: the scan when a call to the registry may never return.        *)
(* checkRepo passes no timeout and no cancellation to the calls it makes   *)
(* (ctx is context.Background()), so a goroutine whose call hangs stays in *)
(* checkRepo for good.  At most one call hangs.                            *)

\* the goroutines stalled in a call that does not return
Hung == {w \in DOMAIN wpc : wpc[w] = "hung"}

\* the call goroutine w is about to make (registry.Repository,
\* repo.Manifests, manifests.Tags or manifests.GetByTag) never returns
Hang(w) ==
    /\ wpc[w] \in {"open", "tags", "loop"}
    /\ Hung = {}
    /\ wpc' = [wpc EXCEPT ![w] = "hung"]
    /\ UNCHANGED <<env, fatal, cm, repos, mainPC, spawned, next, closed, wg,
                   wname, wtags, wti, wtrace, finished, stdout, stderr>>

NextHang ==
    \/ Next
    \/ \E w \in Workers : Hang(w)

\* the lists of SpecHang: a repository that is scanned to its end, as often
\* as the list is long
HangRepoNames == {"alpha"}

InitHang == ScanInit(HangRepoNames)

\* the goroutines that can run do run (as in SpecFair); that a call hangs is
\* up to the registry, and nothing makes it happen
SpecHang == InitHang /\ [][NextHang]_vars /\ WF_vars(Next)

----------------------------------------------------------------------------
(* SpecMain: main() of main.go from its first statement: the flags, the    *)
(* config file, the storage driver and the repository list, then the scan  *)
(* of Spec over the list that was resolved.                                *)

\* a line of the repository-list file: plus '+' characters, then rest, a
\* text that does not start with '+'
Line(plus, rest) == [plus |-> plus, rest |-> rest]

RECURSIVE Plus(_)
Plus(k) == IF k = 0 THEN "" ELSE "+" \o Plus(k - 1)

\* the characters of the line, what scanner.Text() returns
Text(line) == Plus(line.plus) \o line.rest

\* the lines a file is made of
FileLines == {Line(p, r) : p \in 0..MaxPlus, r \in {"", "alpha"}}

\* the repository-list files: one that cannot be opened, and every text of
\* at most MaxLines lines
ReposFiles ==
    {[openErr |-> TRUE, lines |-> <<>>]} \cup
    {[openErr |-> FALSE, lines |-> l] : l \in SeqUpTo(FileLines, MaxLines)}

\* the repositories of the registry, in the order registry.Repositories
\* returns them
Catalog == <<"badfetch", "alpha", "notags", "noopen">>

\* what registry.Repositories(ctx, repos, "") can return for a buffer of
\* maxRepos entries: the number of entries it filled, and the error
Enumerations ==
    [n : 0..(IF maxRepos < Len(Catalog) THEN maxRepos ELSE Len(Catalog)),
     err : {"nil", "EOF", "storage error"}]

\* what a process can be started with
Envs ==
    {[NoEnv EXCEPT !.configPath = ""]} \cup
    {[NoEnv EXCEPT !.config = c] : c \in {"unopenable", "malformed", "baddriver"}} \cup
    {[NoEnv EXCEPT !.reposPath = "repos.txt", !.file = f] : f \in ReposFiles} \cup
    {[NoEnv EXCEPT !.enum = e] : e \in Enumerations}

MustSupplyConfig == "must supply a config file with -config"
ErrOpenConfig == "error opening config file"
ErrParseConfig == "error parsing config file"
ErrCreateDriver == "error creating storage driver"
ErrOpenRepos == "could not open repos file"
ErrGetRepo == "unexpected error getting repo"
TooManyRepos == "too many repositories"

\* panic(msg)
Panic(msg) ==
    /\ mainPC' = "panic"
    /\ fatal' = msg

\* the loop over scanner.Scan(), from line k of the file on
RECURSIVE ReadReposFrom(_, _)
ReadReposFrom(lines, k) ==
    IF k > Len(lines) THEN <<>>
    ELSE LET repoName == lines[k]
             stripped == IF repoName.plus > 0
                         THEN Line(repoName.plus - 1, repoName.rest)
                         ELSE repoName IN
         (IF repoName.plus > 0 \/ repoName.rest # ""
          THEN <<Text(stripped)>>
          ELSE <<>>) \o ReadReposFrom(lines, k + 1)

ReadRepos(lines) == ReadReposFrom(lines, 1)

\* repos = make([]string, maxRepos) after registry.Repositories filled its
\* first n entries
Filled(n) == [i \in 1..maxRepos |-> IF i <= n THEN Catalog[i] ELSE ""]

\* main() at its first statement
InitMain ==
    /\ cm = CMIdle
    /\ repos = <<>>
    /\ mainPC = "flags"
    /\ env \in Envs
    /\ fatal = ""
    /\ PoolIdle

\* flag.Parse(); without -config the usage message and return
ParseFlags ==
    /\ mainPC = "flags"
    /\ IF env.configPath = ""
       THEN /\ mainPC' = "usage"
            /\ stderr' = stderr (+) SetToBag({ErrLine("", MustSupplyConfig)})
       ELSE /\ mainPC' = "config"
            /\ UNCHANGED stderr
    /\ UNCHANGED <<env, fatal, cm, repos, spawned, next, closed, wg, wpc,
                   wname, wtags, wti, wtrace, finished, stdout>>

\* configFile, err := os.Open(configPath)
OpenConfig ==
    /\ mainPC = "config"
    /\ IF env.config = "unopenable"
       THEN Panic(ErrOpenConfig)
       ELSE mainPC' = "parse" /\ UNCHANGED fatal
    /\ UNCHANGED <<env, cm, repos, spawned, next, closed, wg, wpc, wname,
                   wtags, wti, wtrace, finished, stdout, stderr>>

\* config, err := configuration.Parse(configFile)
ParseConfig ==
    /\ mainPC = "parse"
    /\ IF env.config = "malformed"
       THEN Panic(ErrParseConfig)
       ELSE mainPC' = "driver" /\ UNCHANGED fatal
    /\ UNCHANGED <<env, cm, repos, spawned, next, closed, wg, wpc, wname,
                   wtags, wti, wtrace, finished, stdout, stderr>>

\* driver, err := factory.Create(...), then storage.NewRegistry
CreateDriver ==
    /\ mainPC = "driver"
    /\ IF env.config = "baddriver"
       THEN Panic(ErrCreateDriver)
       ELSE mainPC' = "repos" /\ UNCHANGED fatal
    /\ UNCHANGED <<env, cm, repos, spawned, next, closed, wg, wpc, wname,
                   wtags, wti, wtrace, finished, stdout, stderr>>

\* ResolveReposTo whose ceiling test is n > maxRepos: a filled buffer passes
ResolveReposOverCeiling(pc) ==
    /\ mainPC = "repos"
    /\ IF env.reposPath # ""
       THEN IF env.file.openErr
            THEN Panic(ErrOpenRepos) /\ UNCHANGED repos
            ELSE /\ repos' = ReadRepos(env.file.lines)
                 /\ mainPC' = pc
                 /\ UNCHANGED fatal
       ELSE IF env.enum.err \notin {"nil", "EOF"}
            THEN Panic(ErrGetRepo) /\ UNCHANGED repos
            ELSE IF env.enum.n > maxRepos
            THEN Panic(TooManyRepos) /\ UNCHANGED repos
            ELSE /\ repos' = SubSeq(Filled(env.enum.n), 1, env.enum.n)
                 /\ mainPC' = pc
                 /\ UNCHANGED fatal
    /\ UNCHANGED <<env, cm, spawned, next, closed, wg, wpc, wname, wtags, wti,
                   wtrace, finished, stdout, stderr>>

\* var repos []string, filled from the file of -repos when the flag is given
\* and from the catalog of the registry otherwise; main goes on at pc
ResolveReposTo(pc) ==
    /\ mainPC = "repos"
    /\ IF env.reposPath # ""
       THEN IF env.file.openErr
            THEN Panic(ErrOpenRepos) /\ UNCHANGED repos
            ELSE /\ repos' = ReadRepos(env.file.lines)
                 /\ mainPC' = pc
                 /\ UNCHANGED fatal
       ELSE IF env.enum.err \notin {"nil", "EOF"}
            THEN Panic(ErrGetRepo) /\ UNCHANGED repos
            ELSE IF env.enum.n = maxRepos
            THEN Panic(TooManyRepos) /\ UNCHANGED repos
            ELSE /\ repos' = SubSeq(Filled(env.enum.n), 1, env.enum.n)
                 /\ mainPC' = pc
                 /\ UNCHANGED fatal
    /\ UNCHANGED <<env, cm, spawned, next, closed, wg, wpc, wname, wtags, wti,
                   wtrace, finished, stdout, stderr>>

\* main.go: the list resolved, main goes on to start the pool
ResolveRepos == ResolveReposTo("spawn")

SetupStep == ParseFlags \/ OpenConfig \/ ParseConfig \/ CreateDriver

NextMain ==
    \/ SetupStep
    \/ ResolveRepos
    \/ MainStep
    \/ \E w \in Workers : Send(w)
    \/ \E w \in Workers : WorkerStep(w)

SpecMain == InitMain /\ [][NextMain]_vars

----------------------------------------------------------------------------
(* SpecSeq: main() of the sequential program (src/unnamed/part_000): the   *)
(* same setup, then checkRepo on one name after the other, in main's own   *)
(* goroutine.                                                              *)

\* the range over tags of checkRepo from tag k on: the calls made, the
\* lines checkManifest printed, and the error returned
RECURSIVE SeqTagsFrom(_, _, _)
SeqTagsFrom(repoName, tags, k) ==
    IF k > Len(tags) THEN [trace |-> <<>>, out |-> <<>>, err |-> "nil"]
    ELSE LET r == ManifestsGetByTag(repoName, tags[k])
             fetched == Call("GetByTag", tags[k], r.err) IN
         IF r.err # "nil"
         THEN [trace |-> <<fetched>>, out |-> <<>>, err |-> ErrGetByTag]
         ELSE LET c == CheckManifest(repoName, r.mnfst)
                  rest == SeqTagsFrom(repoName, tags, k + 1) IN
              [trace |-> <<fetched, Call("checkManifest", tags[k], c.err)>>
                           \o rest.trace,
               out   |-> c.out \o rest.out,
               err   |-> rest.err]

\* checkRepo(registry, repoName) of part_000, from call to return
SeqCheckRepo(repoName) ==
    LET err1 == RegistryRepository(repoName)
        err2 == RepoManifests(repoName)
        t == ManifestsTags(repoName)
        opened == <<Call("Repository", "", err1)>>
        served == Append(opened, Call("Manifests", "", err2))
        listed == Append(served, Call("Tags", "", t.err))
        l == SeqTagsFrom(repoName, t.tags, 1) IN
    IF err1 # "nil"
    THEN [trace |-> opened, out |-> <<>>, err |-> ErrRepository]
    ELSE IF err2 # "nil"
    THEN [trace |-> served, out |-> <<>>, err |-> ErrManifests]
    ELSE IF t.err # "nil"
    THEN [trace |-> listed, out |-> <<>>, err |-> ErrTags]
    ELSE [trace |-> listed \o l.trace, out |-> l.out, err |-> l.err]

\* flag.Parse(); without -config the usage message, on standard output
SeqParseFlags ==
    /\ mainPC = "flags"
    /\ IF env.configPath = ""
       THEN /\ mainPC' = "usage"
            /\ stdout' = stdout (+) SetToBag({ErrLine("", MustSupplyConfig)})
       ELSE /\ mainPC' = "config"
            /\ UNCHANGED stdout
    /\ UNCHANGED <<env, fatal, cm, repos, spawned, next, closed, wg, wpc,
                   wname, wtags, wti, wtrace, finished, stderr>>

\* the list resolved, main goes on to the loop over repos
SeqResolveRepos == ResolveReposTo("visit")

\* one iteration of the loop over repos:
\*   if err := checkRepo(registry, repoName); err != nil { panic(err) }
SeqVisit ==
    /\ mainPC = "visit"
    /\ next <= Len(repos)
    /\ LET r == SeqCheckRepo(repos[next]) IN
       /\ stdout' = stdout (+) BagOfSeq(r.out)
       /\ finished' = finished (+) SetToBag({Returned(repos[next], r.trace, r.err)})
       /\ IF r.err # "nil"
          THEN Panic(r.err) /\ UNCHANGED next
          ELSE next' = next + 1 /\ UNCHANGED <<mainPC, fatal>>
    /\ UNCHANGED <<env, cm, repos, spawned, closed, wg, wpc, wname, wtags,
                   wti, wtrace, stderr>>

\* the loop over repos is over and main returns
SeqReturn ==
    /\ mainPC = "visit"
    /\ next > Len(repos)
    /\ mainPC' = "done"
    /\ UNCHANGED <<env, fatal, cm, repos, spawned, next, closed, wg, wpc,
                   wname, wtags, wti, wtrace, finished, stdout, stderr>>

NextSeq ==
    \/ SeqParseFlags
    \/ OpenConfig
    \/ ParseConfig
    \/ CreateDriver
    \/ SeqResolveRepos
    \/ SeqVisit
    \/ SeqReturn

SpecSeq == InitMain /\ [][NextSeq]_vars

----------------------------------------------------------------------------
(* Properties of checkManifest (SpecCM) *)

CMReturned == cm.pc = "returned"

\* the lines of cm.out with message msg about history position pos
LinesAt(msg, pos) ==
    {k \in DOMAIN cm.out : cm.out[k].msg = msg /\ cm.out[k].pos = pos}

\* the lines of cm.out with message msg
LinesOf(msg) == {k \in DOMAIN cm.out : cm.out[k].msg = msg}

\* some image at a position j >= i has ID id
BelowOrAt(images, i, id) == \E j \in i..Len(images) : images[j].ID = id

\* some image at a position j < i has ID id
Above(images, i, id) == \E j \in 1..(i - 1) : images[j].ID = id

\* the history positions that fail to decode
FailingEntries(history) ==
    {k \in DOMAIN history : Unmarshal(history[k]).err # "nil"}

LinearChain(mnfst) ==
    LET h == mnfst.History
        n == Len(h) IN
    /\ n >= 1
    /\ Len(mnfst.FSLayers) = n
    /\ FailingEntries(h) = {}
    /\ \A i \in 1..(n - 1) :
          Unmarshal(h[i]).im.Parent = Unmarshal(h[i + 1]).im.ID
    /\ Unmarshal(h[n]).im.Parent = ""

\* C7: on a manifest with equal non-zero counts whose history is a linear
\* chain of decodable entries, checkManifest prints nothing.
C7_LinearChainNoFinding ==
    (CMReturned /\ LinearChain(cm.mnfst)) => cm.out = <<>>

\* C7 witness: a chain of the greatest length whose links are all non-empty
C7_Witness ==
    /\ CMReturned
    /\ LinearChain(cm.mnfst)
    /\ Len(cm.mnfst.History) = MaxLen
    /\ \A i \in 1..(MaxLen - 1) : cm.images[i].Parent # ""

\* C8 as stated: every position i whose non-empty Parent is the ID of an
\* entry strictly before i gets the line "parent not below in manifest"
\* naming that Parent.
C8_ParentAboveAlwaysReported ==
    CMReturned =>
        \A i \in DOMAIN cm.images :
            LET im == cm.images[i] IN
            (im.Parent # "" /\ Above(cm.images, i, im.Parent)) =>
                \E k \in LinesAt(ParentNotBelow, i) : cm.out[k].arg = im.Parent

\* C8 amended: every position i whose non-empty Parent is the ID of an entry
\* strictly before i and of no entry at a position >= i gets the line
\* "parent not below in manifest" naming that Parent.
C8_ParentOnlyAboveReported ==
    CMReturned =>
        \A i \in DOMAIN cm.images :
            LET im == cm.images[i] IN
            (/\ im.Parent # ""
             /\ Above(cm.images, i, im.Parent)
             /\ ~BelowOrAt(cm.images, i, im.Parent)) =>
                \E k \in LinesAt(ParentNotBelow, i) : cm.out[k].arg = im.Parent

\* C8 witness: a parent that occurs above its position only, reported
C8_Witness ==
    /\ CMReturned
    /\ \E i \in DOMAIN cm.images :
          /\ cm.images[i].Parent # ""
          /\ Above(cm.images, i, cm.images[i].Parent)
          /\ ~BelowOrAt(cm.images, i, cm.images[i].Parent)
          /\ LinesAt(ParentNotBelow, i) # {}

\* C9: "no layers present" is printed (once) exactly when the layer count or
\* the history count is 0, and "mismatched layers and history" (once)
\* exactly when the counts differ.
C9_CountFindings ==
    CMReturned =>
        LET l == Len(cm.mnfst.FSLayers)
            h == Len(cm.mnfst.History) IN
        /\ Cardinality(LinesOf(NoLayers)) = IF l = 0 \/ h = 0 THEN 1 ELSE 0
        /\ Cardinality(LinesOf(Mismatched)) = IF l # h THEN 1 ELSE 0

\* C9 witness: three layers and two history entries, the mismatch line only
C9_Witness ==
    /\ CMReturned
    /\ Len(cm.mnfst.FSLayers) = 3
    /\ Len(cm.mnfst.History) = 2
    /\ LinesOf(Mismatched) # {}
    /\ LinesOf(NoLayers) = {}

\* C10: when entries fail to decode, one "json unmarshal error" line is
\* printed per failing entry and none for the others, images has one image
\* per history entry at the entry's position, every entry that decodes gets
\* its parent check against all the images at or after it, and checkManifest
\* returns nil.
C10_DecodeFailureDoesNotStop ==
    (CMReturned /\ FailingEntries(cm.mnfst.History) # {}) =>
        LET h == cm.mnfst.History IN
        /\ \A k \in DOMAIN h :
              Cardinality(LinesAt(UnmarshalError, k)) =
                  IF k \in FailingEntries(h) THEN 1 ELSE 0
        /\ Cardinality(LinesOf(UnmarshalError)) = Cardinality(FailingEntries(h))
        /\ Len(cm.images) = Len(h)
        /\ \A k \in DOMAIN h : cm.images[k] = Unmarshal(h[k]).im
        /\ \A i \in DOMAIN h \ FailingEntries(h) :
              LET im == Unmarshal(h[i]).im IN
              im.Parent # "" =>
                  (LinesAt(ParentNotBelow, i) # {}
                      <=> ~\E j \in i..Len(h) : Unmarshal(h[j]).im.ID = im.Parent)
        /\ cm.err = "nil"

\* C10 witness: a history whose first entry fails to decode and whose later
\* entries, which decode, are one reported and one not
C10_Witness ==
    /\ CMReturned
    /\ Len(cm.mnfst.History) = 3
    /\ FailingEntries(cm.mnfst.History) = {1}
    /\ LinesAt(UnmarshalError, 1) # {}
    /\ cm.images[2].Parent # ""
    /\ LinesAt(ParentNotBelow, 2) # {}
    /\ cm.images[3].Parent # ""
    /\ LinesAt(ParentNotBelow, 3) = {}

----------------------------------------------------------------------------
(* Properties of the scan (Spec, SpecFair) *)

\* goroutine w is inside a checkRepo call
InCheckRepo(w) == wpc[w] \in {"open", "tags", "loop"}

Occurrences(s, n) == Cardinality({i \in DOMAIN s : s[i] = n})

\* the number of entries with name n the producer has sent
SentOf(n) == Cardinality({i \in DOMAIN repos : i < next /\ repos[i] = n})

\* the number of goroutines inside checkRepo(registry, n)
Holding(n) == Cardinality({w \in Workers : InCheckRepo(w) /\ wname[w] = n})

\* the number of checkRepo(registry, n) calls that returned
FinishedOf(n) ==
    BagCardinality([r \in {x \in DOMAIN finished : x.repo = n} |-> finished[r]])

\* every name a checkRepo call was made with
NamesSeen ==
    RepoNames \cup Range(repos) \cup {r.repo : r \in DOMAIN finished}
    \cup {wname[w] : w \in {x \in Workers : InCheckRepo(x)}}

ScanDone == mainPC = "done"

\* C1: under every interleaving the checkRepo calls started so far are, name
\* by name, as many as the entries the producer has sent (so no call is made
\* with a name that is not an entry, and no entry is taken twice), and when
\* main ends every entry of the list has had exactly one checkRepo call.
C1_EachEntryOnce ==
    /\ next \in 1..(Len(repos) + 1)
    /\ \A n \in NamesSeen : Holding(n) + FinishedOf(n) = SentOf(n)
    /\ ScanDone =>
          /\ next = Len(repos) + 1
          /\ \A n \in NamesSeen : FinishedOf(n) = Occurrences(repos, n)

\* C1 witness: a list longer than the pool with a name that occurs twice,
\* scanned to the end
C1_Witness ==
    /\ ScanDone
    /\ Len(repos) > PoolWidth
    /\ \E n \in Range(repos) : Occurrences(repos, n) = 2 /\ FinishedOf(n) = 2

\* every call checkRepo makes for repository n succeeds
AllCallsSucceed(n) ==
    /\ RegistryRepository(n) = "nil"
    /\ RepoManifests(n) = "nil"
    /\ ManifestsTags(n).err = "nil"
    /\ \A t \in Range(ManifestsTags(n).tags) : ManifestsGetByTag(n, t).err = "nil"

\* the list positions whose name fails to open
OpenFailures == {i \in DOMAIN repos : RegistryRepository(repos[i]) # "nil"}

\* one entry fails to open and every call for every other entry succeeds
OneOpenFailure ==
    /\ Cardinality(OpenFailures) = 1
    /\ \A i \in DOMAIN repos \ OpenFailures : AllCallsSucceed(repos[i])

\* the lines on os.Stderr that report an error of checkRepo
ErrorLines == {l \in DOMAIN stderr : l.text # CheckingRepo}

RECURSIVE TagCallsFrom(_, _, _)
TagCallsFrom(n, tags, k) ==
    IF k > Len(tags) THEN <<>>
    ELSE <<Call("GetByTag", tags[k], "nil"), Call("checkManifest", tags[k], "nil")>>
         \o TagCallsFrom(n, tags, k + 1)

\* the calls of a checkRepo(registry, n) that opens n, lists its tags and
\* fetches and validates every one of them
FullScan(n) ==
    <<Call("Repository", "", "nil"), Call("Manifests", "", "nil"),
      Call("Tags", "", "nil")>>
    \o TagCallsFrom(n, ManifestsTags(n).tags, 1)

\* a goroutine or main can take a step
CanStep == ENABLED Next

\* C2: when one entry of the list fails to open and every other call
\* succeeds, the scan never gets stuck before main ends, and when main has
\* ended exactly one error line is on os.Stderr, the one of that entry, every
\* other entry was opened, had its tags listed and every tag's manifest
\* fetched and validated, and the findings of those manifests are on stdout.
C2_OneOpenFailure ==
    OneOpenFailure =>
        /\ ~ScanDone => CanStep
        /\ ScanDone =>
              /\ \A l \in ErrorLines :
                    /\ stderr[l] = 1
                    /\ l.text = ErrRepository
                    /\ \E i \in OpenFailures : l.repo = repos[i]
              /\ Cardinality(ErrorLines) = 1
              /\ \A i \in DOMAIN repos \ OpenFailures :
                    LET n == repos[i] IN
                    /\ \A r \in DOMAIN finished :
                          r.repo = n => r = Returned(n, FullScan(n), "nil")
                    /\ FinishedOf(n) = Occurrences(repos, n)
                    /\ CopiesIn(ErrLine(n, CheckingRepo), stderr)
                           = Occurrences(repos, n)
                    /\ \A t \in Range(ManifestsTags(n).tags) :
                          \A f \in Range(CheckManifest(n,
                                     ManifestsGetByTag(n, t).mnfst).out) :
                              CopiesIn(f, stdout) >= Occurrences(repos, n)

\* C2 witness: a list longer than the pool whose second entry fails to open,
\* scanned to the end
C2_Witness ==
    /\ ScanDone
    /\ OneOpenFailure
    /\ Len(repos) > PoolWidth
    /\ OpenFailures = {2}
    /\ Cardinality(ErrorLines) = 1

\* C3: main gets past wg.Wait() only when every goroutine of the pool is
\* over, the channel is closed with every name received, no checkRepo call
\* is in progress and every entry's checkRepo call has returned.
C3_CompletionBarrier ==
    ScanDone =>
        /\ \A w \in Workers : wpc[w] = "exited"
        /\ closed
        /\ next = Len(repos) + 1
        /\ wg = 0
        /\ \A w \in Workers : ~InCheckRepo(w)
        /\ BagCardinality(finished) = Len(repos)

\* C3 witness: main is past wg.Wait() after a scan of a list of the greatest
\* length
C3_Witness ==
    /\ ScanDone
    /\ Len(repos) = MaxRepos
    /\ BagCardinality(finished) = MaxRepos

\* the process is over: main returned and every goroutine is over
Terminated == ScanDone /\ \A w \in Workers : wpc[w] = "exited"

\* C4: under fair scheduling, for every list (the empty one and those longer
\* than the pool included) the producer eventually has sent every name and
\* closed the channel, every goroutine eventually is over and main returns;
\* and no state short of that is one in which nothing can take a step.
C4_Termination ==
    /\ <>(closed /\ next = Len(repos) + 1)
    /\ <>Terminated
    /\ [](~Terminated => CanStep)

\* C4 witness: the process is over after a scan of a list longer than the
\* pool in which a repository failed to open
C4_Witness ==
    /\ Terminated
    /\ Len(repos) > PoolWidth
    /\ "noopen" \in Range(repos)
    /\ "alpha" \in Range(repos)

IsFetch(c) == c.op = "GetByTag"

IsFetched(c) == c.op = "GetByTag" /\ c.err = "nil"

IsValidation(c) == c.op = "checkManifest"

TagsOf(calls) == [i \in DOMAIN calls |-> calls[i].tag]

\* the calls of one checkRepo(registry, n) fetch and validate the tags in
\* the order manifests.Tags() returned them, one at a time, and nothing
\* follows a fetch that failed
TagOrder(n, trace) ==
    LET tags == ManifestsTags(n).tags
        fetches == SelectSeq(trace, IsFetch) IN
    /\ Len(fetches) <= Len(tags)
    /\ TagsOf(fetches) = SubSeq(tags, 1, Len(fetches))
    /\ TagsOf(SelectSeq(trace, IsValidation)) = TagsOf(SelectSeq(trace, IsFetched))
    /\ \A i \in DOMAIN trace :
          /\ IsFetched(trace[i]) =>
                /\ i < Len(trace)
                /\ trace[i + 1] = Call("checkManifest", trace[i].tag, "nil")
          /\ (IsFetch(trace[i]) /\ trace[i].err # "nil") => i = Len(trace)

\* a checkRepo call on a repository whose open and tag listing succeeded
\* returned: with the error of the first fetch that failed, or with nil
\* after the last tag
TagResult(r) ==
    LET tags == ManifestsTags(r.repo).tags
        fetches == SelectSeq(r.trace, IsFetch)
        failed == {i \in DOMAIN fetches : fetches[i].err # "nil"} IN
    /\ failed # {} => r.err = ErrGetByTag
    /\ failed = {} => r.err = "nil" /\ Len(fetches) = Len(tags)
    /\ \A i \in failed :
          /\ ManifestsGetByTag(r.repo, tags[i]).err # "nil"
          /\ \A j \in 1..(i - 1) : ManifestsGetByTag(r.repo, tags[j]).err = "nil"

\* the repository opens and lists its tags
TagsListed(n) ==
    /\ RegistryRepository(n) = "nil"
    /\ RepoManifests(n) = "nil"
    /\ ManifestsTags(n).err = "nil"

\* C5: in every checkRepo call on a repository whose open and tag listing
\* succeed, the tags are fetched and validated one at a time in the order
\* returned; the call returns an error at the first tag whose fetch fails,
\* with every earlier tag validated and no later tag fetched; and the
\* goroutine goes back to the receive, so that it is over only once the
\* channel is closed and main ends only when every entry's call returned.
C5_FirstFetchFailureStopsRepo ==
    /\ \A w \in Workers :
          (InCheckRepo(w) /\ TagsListed(wname[w])) => TagOrder(wname[w], wtrace[w])
    /\ \A r \in DOMAIN finished :
          TagsListed(r.repo) => TagOrder(r.repo, r.trace) /\ TagResult(r)
    /\ \A w \in Workers : wpc[w] = "exited" => closed /\ next = Len(repos) + 1
    /\ ScanDone => BagCardinality(finished) = Len(repos)

\* C5 witness: main has ended after a scan in which a repository whose
\* second tag cannot be fetched came before one that is scanned to its end
C5_Witness ==
    /\ ScanDone
    /\ \E i, j \in DOMAIN repos :
          /\ i < j
          /\ repos[i] = "badfetch"
          /\ repos[j] = "alpha"
    /\ \E r \in DOMAIN finished :
          /\ r.repo = "badfetch"
          /\ r.err = ErrGetByTag
          /\ Len(SelectSeq(r.trace, IsValidation)) = 1
    /\ \E r \in DOMAIN finished : r = Returned("alpha", FullScan("alpha"), "nil")

----------------------------------------------------------------------------
(* Claims about the setup and the end of the process *)

\* the messages of the panics of the setup
SetupPanics ==
    {ErrOpenConfig, ErrParseConfig, ErrCreateDriver, ErrOpenRepos, ErrGetRepo,
     TooManyRepos}

\* checkRepo has been called for some repository
Visited ==
    \/ finished # EmptyBag
    \/ \E w \in DOMAIN wpc : InCheckRepo(w)

\* C11: the process ends by a panic only in the setup: the panic is one of
\* the panics of the config file, the storage driver, the repository-list
\* file, the enumeration or the ceiling, and no repository has been visited
\* when it is raised; nothing a visit finds ends the process.
C11_OnlySetupTerminates ==
    mainPC = "panic" => fatal \in SetupPanics /\ ~Visited

\* main is past the setup, in the scan of the resolved list
ScanPCs == {"spawn", "send", "wait", "done"}

\* C13: every repository name handed to the pool is a non-empty string,
\* whatever the repository-list file holds: no entry of the resolved list is
\* empty and no goroutine runs checkRepo with an empty name.
C13_NamesNonEmpty ==
    /\ \A i \in DOMAIN repos : repos[i] # ""
    /\ \A w \in DOMAIN wpc : InCheckRepo(w) => wname[w] # ""

\* the lines of the file that are not blank
NonBlank(lines) == {k \in DOMAIN lines : lines[k].plus > 0 \/ lines[k].rest # ""}

\* the enumeration went through and filled every entry of the buffer
BufferFilled ==
    /\ env.reposPath = ""
    /\ env.enum.err \in {"nil", "EOF"}
    /\ env.enum.n = maxRepos

\* C14 as stated: whichever source the names come from, the list the scan
\* runs over has fewer entries than the ceiling, and the panic of the ceiling
\* comes before any repository is visited.
C14_ListBelowCeiling ==
    /\ mainPC \in ScanPCs => Len(repos) < maxRepos
    /\ fatal = TooManyRepos => mainPC = "panic" /\ ~Visited

\* C14, amended: a list that comes from the enumeration has fewer entries
\* than the ceiling; an enumeration that fills the buffer ends in the panic
\* "too many repositories" before any repository is visited; a list read
\* from a file has one entry for each non-blank line, however many.
C14_EnumerationBelowCeiling ==
    /\ (mainPC \in ScanPCs /\ env.reposPath = "") =>
          /\ Len(repos) = env.enum.n
          /\ Len(repos) < maxRepos
    /\ BufferFilled =>
          /\ mainPC \in {"flags", "config", "parse", "driver", "repos", "panic"}
          /\ mainPC = "panic" => fatal = TooManyRepos
          /\ repos = <<>>
          /\ ~Visited
    /\ fatal = TooManyRepos => BufferFilled /\ mainPC = "panic"
    /\ (mainPC \in ScanPCs /\ env.reposPath # "") =>
          Len(repos) = Cardinality(NonBlank(env.file.lines))

\* C14 witness: the enumeration filled the buffer and the process has ended
\* with the panic of the ceiling
C14_Witness ==
    /\ BufferFilled
    /\ mainPC = "panic"
    /\ fatal = TooManyRepos

----------------------------------------------------------------------------
(* Claims about the pool and the channel *)

\* the number of stalled goroutines that hold name n
HeldByStalled(n) == Cardinality({w \in Hung : wname[w] = n})

\* every entry of the list but the one a stalled goroutine holds has been
\* taken and its checkRepo call has returned
AllOthersProcessed ==
    \A n \in Range(repos) :
        FinishedOf(n) = Occurrences(repos, n) - HeldByStalled(n)

\* C15: under fair scheduling, whether or not a call of one goroutine hangs,
\* the producer ends up having sent every name and closed the channel, every
\* name but the one the stalled goroutine holds ends up processed to the
\* return of its checkRepo call, and every other goroutine ends up leaving
\* its loop; only the stalled goroutine stays where it is.
C15_HangIsolation ==
    <>[](/\ closed
         /\ next = Len(repos) + 1
         /\ AllOthersProcessed
         /\ \A w \in Workers \ Hung : wpc[w] = "exited")

\* C15 witness: a goroutine is stalled on a name of a list of the greatest
\* length, the channel is closed and the other goroutine has processed the
\* other names and left
C15_Witness ==
    /\ Hung # {}
    /\ Len(repos) = MaxRepos
    /\ closed
    /\ AllOthersProcessed
    /\ BagCardinality(finished) = MaxRepos - 1
    /\ \A w \in Workers \ Hung : wpc[w] = "exited"

\* the goroutines that are in a checkRepo call
Busy == {w \in Workers : InCheckRepo(w)}

\* the producer hands the next name of the list to a goroutine that is at
\* its receive, and nothing else changes what a goroutine holds
HandOff ==
    /\ next <= Len(repos)
    /\ next' = next + 1
    /\ \E w \in Workers :
          /\ wpc[w] = "recv"
          /\ wpc'[w] = "open"
          /\ wname'[w] = repos[next]
          /\ \A x \in Workers \ {w} : wpc'[x] = wpc[x] /\ wname'[x] = wname[x]

\* C16: at most PoolWidth repositories are being processed at any time, and
\* as many as there are goroutines in checkRepo, each with the one name it
\* received (the names sent and not yet returned); the names leave the
\* channel in the order of the list: every step that starts a checkRepo call
\* is the hand-off of repos[next], which moves next on by one, so the k-th
\* name is claimed before the (k+1)-th.
C16_BoundedFIFO ==
    /\ [](/\ spawned <= PoolWidth
          /\ Cardinality(Busy) <= PoolWidth
          /\ Cardinality(Busy) = (next - 1) - BagCardinality(finished)
          /\ \A w \in Busy : \E i \in 1..(next - 1) : repos[i] = wname[w])
    /\ [][/\ next' # next => HandOff
          /\ \A w \in Workers :
                (wpc'[w] = "open" /\ wpc[w] # "open") => HandOff]_vars

\* C16 witness: every goroutine of the pool is in checkRepo, with the first
\* PoolWidth names of the list in some order, and the producer waits with
\* the next name
C16_Witness ==
    /\ Cardinality(Busy) = PoolWidth
    /\ next = PoolWidth + 1
    /\ next <= Len(repos)
    /\ \A i \in 1..PoolWidth : \E w \in Busy : wname[w] = repos[i]

\* the goroutines that were started and have not called wg.Done()
Live == {w \in Workers : wpc[w] \notin {"idle", "exited"}}

\* C20: the channel is closed once, by the producer, after the last name was
\* received, and stays closed; no name is sent after the close; a goroutine
\* starts a checkRepo call only on a name the producer sent before the close
\* (never on the zero value a closed channel yields); it leaves its loop
\* only from the receive with the channel closed, calls wg.Done() in that
\* step and never again; the counter is the number of goroutines that have
\* not left, PoolWidth while names are sent, never negative, and 0 when
\* wg.Wait() has returned.
C20_ChannelProtocol ==
    /\ [](/\ wg \in 0..PoolWidth
          /\ wg = Cardinality(Live)
          /\ closed => next = Len(repos) + 1 /\ mainPC \in {"wait", "done"}
          /\ (mainPC = "send" /\ ~closed) => wg = PoolWidth
          /\ mainPC = "done" => wg = 0 /\ closed
          /\ \A w \in Workers : wpc[w] = "exited" => closed)
    /\ [][/\ closed => closed'
          /\ (closed' /\ ~closed) =>
                /\ mainPC = "send"
                /\ next = Len(repos) + 1
                /\ next' = next
                /\ Busy = {w \in Workers : wpc'[w] \in {"open", "tags", "loop"}}
          /\ next' # next => ~closed /\ ~closed' /\ next' = next + 1
          /\ \A w \in Workers :
                /\ (wpc'[w] = "open" /\ wpc[w] # "open") =>
                      ~closed /\ next' = next + 1 /\ next <= Len(repos)
                /\ (wpc'[w] = "exited" /\ wpc[w] # "exited") =>
                      closed /\ wpc[w] = "recv" /\ wg' = wg - 1
                /\ wpc[w] = "exited" => wpc'[w] = "exited"
          /\ wg' < wg =>
                /\ wg' = wg - 1
                /\ Cardinality({w \in Workers : wpc'[w] = "exited"}) =
                      Cardinality({w \in Workers : wpc[w] = "exited"}) + 1]_vars

\* C20 witness: wg.Wait() has returned after a scan of a list of the
\* greatest length: the channel is closed, every goroutine has left and the
\* counter is back to 0
C20_Witness ==
    /\ mainPC = "done"
    /\ Len(repos) = MaxRepos
    /\ closed
    /\ wg = 0
    /\ \A w \in Workers : wpc[w] = "exited"

----------------------------------------------------------------------------
(* Claims about the order of the findings and about entries that fail to   *)
(* decode                                                                  *)

\* C17 as stated: the findings about the counts come first, "no layers
\* present" before "mismatched layers and history", and the findings about
\* history positions follow in position order: none about a position i comes
\* after one about a position j > i.
C17_PositionOrder ==
    CMReturned =>
        \A k, l \in DOMAIN cm.out :
            k < l =>
                /\ cm.out[l].pos = 0 => cm.out[k].pos = 0
                /\ cm.out[l].msg = NoLayers => cm.out[k].msg # Mismatched
                /\ cm.out[k].pos > 0 => cm.out[k].pos <= cm.out[l].pos

\* the place of a kind of finding in the output of checkManifest
Rank(msg) ==
    CASE msg = NoLayers       -> 1
      [] msg = Mismatched     -> 2
      [] msg = UnmarshalError -> 3
      [] msg = ParentNotBelow -> 4

\* C17, amended: the findings come kind by kind ("no layers present", then
\* "mismatched layers and history", then every "json unmarshal error", then
\* every "parent not below in manifest"), at most one of each count finding,
\* and within the unmarshal findings and within the parent findings in
\* strictly increasing history position.
C17_KindThenPositionOrder ==
    CMReturned =>
        \A k, l \in DOMAIN cm.out :
            k < l =>
                \/ Rank(cm.out[k].msg) < Rank(cm.out[l].msg)
                \/ /\ Rank(cm.out[k].msg) = Rank(cm.out[l].msg)
                   /\ cm.out[k].pos < cm.out[l].pos

\* C17 witness: a call that printed both count findings, then an unmarshal
\* finding about a position, then a parent finding about an earlier position
C17_Witness ==
    /\ CMReturned
    /\ Len(cm.out) >= 4
    /\ cm.out[1].msg = NoLayers
    /\ cm.out[2].msg = Mismatched
    /\ \E k, l \in DOMAIN cm.out :
          /\ k < l
          /\ cm.out[k].msg = UnmarshalError
          /\ cm.out[l].msg = ParentNotBelow
          /\ cm.out[l].pos < cm.out[k].pos

\* C18: a history entry that fails to decode contributes the image with ID
\* and Parent both empty; so no parent finding is printed for its position,
\* and its ID is the Parent of no other entry that has one.
C18_FailedDecodeIsEmpty ==
    CMReturned =>
        \A k \in FailingEntries(cm.mnfst.History) :
            /\ cm.images[k] = ZeroImage
            /\ LinesAt(ParentNotBelow, k) = {}
            /\ \A i \in DOMAIN cm.images \ {k} :
                  cm.images[i].Parent # "" => cm.images[k].ID # cm.images[i].Parent

\* C19: for every image with a non-empty Parent for which no parent finding
\* is printed, the Parent is the ID of an entry at a position strictly after
\* the image's own.
C19_ParentStrictlyBelow ==
    CMReturned =>
        \A i \in DOMAIN cm.images :
            (cm.images[i].Parent # "" /\ LinesAt(ParentNotBelow, i) = {}) =>
                \E j \in (i + 1)..Len(cm.images) :
                    cm.images[j].ID = cm.images[i].Parent

====
